---- MODULE Spec2Model ----
(***************************************************************************)
(* Adhera medication tracker (src/app.py): the session record (medicines,  *)
(* history, next_id), the per-user JSON files, the handlers that mutate    *)
(* them and the derived views (checklist status, next dose, adherence).    *)
(*                                                                         *)
(* Text is a sequence of one-character strings, so that strip, split,      *)
(* int, strptime, strftime and lower are computed, not assumed.  A date is *)
(* a day number: date.isoformat() is injective and dates are only compared *)
(* for equality, and timedelta(days=k) is +k / -k on the day number.       *)
(* Saving is assumed to succeed (no I/O error while writing the file).     *)
(***************************************************************************)
EXTENDS Integers, Sequences, FiniteSets, TLC

(* ------------------------------ bounds -------------------------------- *)
\* longest medicines list an add or an import row may extend
MaxMeds == 2
\* largest value next_id may be incremented from
MaxId == 3
\* longest history a mark may extend
MaxHist == 2
\* longest medicines list drawn as an input of the derived views
MaxViewMeds == 2

(* ------------------------------- text --------------------------------- *)
Digits == <<"0", "1", "2", "3", "4", "5", "6", "7", "8", "9">>

IsDigit(c) == \E i \in 1..10 : Digits[i] = c

DigitVal(c) == (CHOOSE i \in 1..10 : Digits[i] = c) - 1

RECURSIVE LStrip(_)
LStrip(s) == IF s # <<>> /\ Head(s) = " " THEN LStrip(Tail(s)) ELSE s

RECURSIVE RStrip(_)
RStrip(s) ==
    IF s # <<>> /\ s[Len(s)] = " " THEN RStrip(SubSeq(s, 1, Len(s) - 1)) ELSE s

\* str.strip()
Strip(s) == RStrip(LStrip(s))

\* str.split(":")
RECURSIVE Split(_)
Split(s) ==
    IF \E i \in 1..Len(s) : s[i] = ":"
    THEN LET i == CHOOSE k \in 1..Len(s) :
                      s[k] = ":" /\ \A j \in 1..(k - 1) : s[j] # ":"
         IN  <<SubSeq(s, 1, i - 1)>> \o Split(SubSeq(s, i + 1, Len(s)))
    ELSE <<s>>

RECURSIVE DecVal(_)
DecVal(s) ==
    IF s = <<>> THEN 0
    ELSE 10 * DecVal(SubSeq(s, 1, Len(s) - 1)) + DigitVal(s[Len(s)])

AllDigits(s) == s # <<>> /\ \A i \in 1..Len(s) : IsDigit(s[i])

\* int(text): surrounding whitespace is ignored; -1 stands for ValueError
PyInt(s) == LET t == Strip(s) IN IF AllDigits(t) THEN DecVal(t) ELSE -1

\* hh, mm = map(int, sched.split(":")): <<hh, mm>>, or <<>> when it raises
ParseHHMM(s) ==
    LET parts == Split(s)
    IN  IF Len(parts) = 2 /\ PyInt(parts[1]) >= 0 /\ PyInt(parts[2]) >= 0
        THEN <<PyInt(parts[1]), PyInt(parts[2])>>
        ELSE <<>>

\* datetime.strptime(text, "%H:%M"): <<hour, minute>>, or <<>> when it raises.
\* %H is one or two digits up to 23, %M one or two digits up to 59, and the
\* whole text has to match.
Strptime(s) ==
    LET parts == Split(s)
    IN  IF /\ Len(parts) = 2
           /\ AllDigits(parts[1]) /\ Len(parts[1]) <= 2
           /\ AllDigits(parts[2]) /\ Len(parts[2]) <= 2
           /\ DecVal(parts[1]) <= 23 /\ DecVal(parts[2]) <= 59
        THEN <<DecVal(parts[1]), DecVal(parts[2])>>
        ELSE <<>>

\* strftime("%H:%M") of hour h and minute m: two digits each, zero padded
Strftime(h, m) ==
    <<Digits[(h \div 10) + 1], Digits[(h % 10) + 1], ":",
      Digits[(m \div 10) + 1], Digits[(m % 10) + 1]>>

\* str.lower() on the letters the user names use
LowerChar(c) == IF c = "A" THEN "a" ELSE IF c = "D" THEN "d" ELSE c

Lower(s) == [i \in 1..Len(s) |-> LowerChar(s[i])]

\* urllib.parse.quote_plus on letters and spaces
QuotePlus(s) == [i \in 1..Len(s) |-> IF s[i] = " " THEN "+" ELSE s[i]]

(* ------------------------------- state -------------------------------- *)
VARIABLES
    medicines,   \* st.session_state.medicines: list of {id, name, sched_time, notes}
    history,     \* st.session_state.history: list of {date, name, sched_time, taken, taken_time}
    next_id,     \* st.session_state.next_id
    user,        \* st.session_state.user (<<>> is None)
    user_file,   \* st.session_state.user_file (<<>> is None)
    disk,        \* the JSON files, by path
    today,       \* date.today(), a day number
    now_mins,    \* datetime.now(): minute of the day
    now_secs,    \* datetime.now(): 1 when seconds have passed since the minute began
    last,        \* the dose the script run has just marked or added, if it did
    issued,      \* by path: the ids add_medicine has handed out for that file
    fresh,       \* by path: the ids handed out since that file was last reset
    view         \* what the script run has rendered from the record

vars == <<medicines, history, next_id, user, user_file, disk, today,
          now_mins, now_secs, last, issued, fresh, view>>

\* Path("adhera_data.json")
DEFAULT_DATA_FILE == <<"adhera_", "d", "a", "t", "a", ".json">>

\* Path(f"adhera_{safe_name}.json")
UserFile(safe_name) == <<"adhera_">> \o safe_name \o <<".json">>

\* texts typed into the name box of the login row
UserTexts == {<<>>, <<" ", "A">>, <<"D", "a", "t", "a">>}

\* the ones among them that select the default file
SharedUserTexts == {u \in UserTexts : Strip(u) = <<>> \/
                       <<"adhera_">> \o QuotePlus(Lower(Strip(u))) \o <<".json">>
                           = DEFAULT_DATA_FILE}

Files == {DEFAULT_DATA_FILE} \cup
         {UserFile(QuotePlus(Lower(Strip(u)))) : u \in {t \in UserTexts : Strip(t) # <<>>}}

EmptyRecord == [medicines |-> <<>>, history |-> <<>>, next_id |-> 1]

\* a path with no file behind it
NoFile == [exists |-> FALSE, data |-> EmptyRecord]

get_data_file == IF user_file # <<>> THEN user_file ELSE DEFAULT_DATA_FILE

\* the record load_state_from_disk puts into the session from file f
load_state_from_disk(d, f) == IF d[f].exists THEN d[f].data ELSE EmptyRecord

\* save_state_to_disk that leaves next_id out of the data written
save_state_to_disk_no_id(d, f, r) ==
    [d EXCEPT ![f] = [exists |-> TRUE, data |-> [r EXCEPT !.next_id = 1]]]

\* the files after save_state_to_disk has written record r to file f
save_state_to_disk(d, f, r) == [d EXCEPT ![f] = [exists |-> TRUE, data |-> r]]

\* no dose was marked or added in the run
NoMark == [op |-> "none", name |-> <<>>, sched |-> <<>>, existed |-> FALSE]

NoView == [rendered |-> FALSE, status |-> <<>>, next |-> <<>>, weekly |-> 0]

\* the moments at which script runs happen: <<day, minute of the day>>
ClockSamples == {<<0, 480>>, <<0, 1260>>, <<1, 480>>}

Init ==
    /\ medicines = <<>>
    /\ history = <<>>
    /\ next_id = 1
    /\ user = <<>>
    /\ user_file = <<>>
    /\ disk = [f \in Files |-> NoFile]
    /\ today = 0
    /\ now_mins = 480
    /\ now_secs = 0
    /\ last = NoMark
    /\ issued = [f \in Files |-> {}]
    /\ fresh = [f \in Files |-> {}]
    /\ view = NoView

(* ------------------------- add / delete / mark ------------------------ *)
\* add_medicine that forgets to advance the counter
add_medicine_noinc(r, name, sched_time_str, notes) ==
    [r EXCEPT !.medicines = Append(r.medicines,
                                   [id |-> r.next_id, name |-> Strip(name),
                                    sched_time |-> sched_time_str,
                                    notes |-> Strip(notes)])]

\* add_medicine on record r
add_medicine(r, name, sched_time_str, notes) ==
    [r EXCEPT !.medicines = Append(r.medicines,
                                   [id |-> r.next_id, name |-> Strip(name),
                                    sched_time |-> sched_time_str,
                                    notes |-> Strip(notes)]),
              !.next_id = r.next_id + 1]

\* delete_medicine that renumbers what remains
delete_medicine_renumber(meds, med_id) ==
    LET kept == SelectSeq(meds, LAMBDA m : m.id # med_id)
    IN  [k \in 1..Len(kept) |-> [kept[k] EXCEPT !.id = k]]

\* delete_medicine on the medicines list
delete_medicine(meds, med_id) == SelectSeq(meds, LAMBDA m : m.id # med_id)

SameKey(h, d, name, sched) == h.date = d /\ h.name = name /\ h.sched_time = sched

\* index of the first event next(...) finds for the key, 0 for None
Existing(hist, d, name, sched) ==
    IF \E i \in 1..Len(hist) : SameKey(hist[i], d, name, sched)
    THEN CHOOSE i \in 1..Len(hist) :
             /\ SameKey(hist[i], d, name, sched)
             /\ \A j \in 1..(i - 1) : ~SameKey(hist[j], d, name, sched)
    ELSE 0

\* mark_taken that leaves the time of an earlier mark in place
mark_taken_keep(hist, d, n, name, sched) ==
    LET now_str == Strftime(n \div 60, n % 60)
        existing == Existing(hist, d, name, sched)
    IN  IF existing # 0
        THEN [hist EXCEPT ![existing].taken = TRUE]
        ELSE Append(hist, [date |-> d, name |-> name, sched_time |-> sched,
                           taken |-> TRUE, taken_time |-> now_str])

\* mark_taken on the history, on day d at minute n
mark_taken(hist, d, n, name, sched) ==
    LET now_str == Strftime(n \div 60, n % 60)
        existing == Existing(hist, d, name, sched)
    IN  IF existing # 0
        THEN [hist EXCEPT ![existing].taken = TRUE, ![existing].taken_time = now_str]
        ELSE Append(hist, [date |-> d, name |-> name, sched_time |-> sched,
                           taken |-> TRUE, taken_time |-> now_str])

\* mark_missed that appends without looking for an event
mark_missed_always(hist, d, name, sched) ==
    Append(hist, [date |-> d, name |-> name, sched_time |-> sched,
                  taken |-> FALSE, taken_time |-> <<>>])

\* mark_missed that turns an event it finds into a missed one
mark_missed_overwrite(hist, d, name, sched) ==
    LET existing == Existing(hist, d, name, sched)
    IN  IF existing = 0
        THEN Append(hist, [date |-> d, name |-> name, sched_time |-> sched,
                           taken |-> FALSE, taken_time |-> <<>>])
        ELSE [hist EXCEPT ![existing].taken = FALSE, ![existing].taken_time = <<>>]

\* mark_missed on the history, on day d
mark_missed(hist, d, name, sched) ==
    IF Existing(hist, d, name, sched) = 0
    THEN Append(hist, [date |-> d, name |-> name, sched_time |-> sched,
                       taken |-> FALSE, taken_time |-> <<>>])
    ELSE hist

\* the session record
Record == [medicines |-> medicines, history |-> history, next_id |-> next_id]

(* --------------------------- derived views ---------------------------- *)
\* a datetime: day d, minute m of the day, s = 1 when past the start of the minute
Instant(d, m, s) == (d * 1440 + m) * 2 + s

InstantDay(t) == t \div 2880

\* upcoming without the wrap to the next day
RECURSIVE Upcoming_nowrap(_, _, _)
Upcoming_nowrap(meds, d, now) ==
    IF meds = <<>> THEN <<>>
    ELSE LET med == Head(meds)
             hm == ParseHHMM(med.sched_time)
             today_dt == Instant(d, 0, 0) + 2 * (hm[1] * 60 + hm[2])
             rest == Upcoming_nowrap(Tail(meds), d, now)
         IN  IF hm = <<>> THEN rest ELSE <<(<<today_dt, med>>)>> \o rest

\* the list upcoming of next_scheduled_dose: <<instant, medicine>> pairs
RECURSIVE Upcoming(_, _, _)
Upcoming(meds, d, now) ==
    IF meds = <<>> THEN <<>>
    ELSE LET med == Head(meds)
             hm == ParseHHMM(med.sched_time)
             today_dt == Instant(d, 0, 0) + 2 * (hm[1] * 60 + hm[2])
             rest == Upcoming(Tail(meds), d, now)
         IN  IF hm = <<>> THEN rest
             ELSE IF today_dt >= now THEN <<(<<today_dt, med>>)>> \o rest
             ELSE <<(<<today_dt + Instant(1, 0, 0), med>>)>> \o rest

\* next_scheduled_dose: <<medicine, instant>>, or <<>> for (None, None).
\* list.sort is stable, so the first pair with the least instant comes first.
next_scheduled_dose(meds, d, now) ==
    LET upcoming == Upcoming(meds, d, now)
    IN  IF upcoming = <<>> THEN <<>>
        ELSE LET i == CHOOSE k \in 1..Len(upcoming) :
                          /\ \A j \in 1..Len(upcoming) : upcoming[k][1] <= upcoming[j][1]
                          /\ \A j \in 1..(k - 1) : upcoming[j][1] > upcoming[k][1]
             IN  <<upcoming[i][2], upcoming[i][1]>>

\* the checklist label with the 15-minute boundary counted as upcoming
ChecklistStatus_strict(med, hist, d, n) ==
    LET hm == ParseHHMM(med.sched_time)
        sched_mins == IF hm = <<>> THEN 0 ELSE hm[1] * 60 + hm[2]
        rec == Existing(hist, d, med.name, med.sched_time)
    IN  IF rec # 0
        THEN IF hist[rec].taken THEN "Taken" ELSE "Missed"
        ELSE IF n <= sched_mins - 15 THEN "Upcoming"
        ELSE IF n <= sched_mins + 30 THEN "Due now/soon"
        ELSE "Missed"

\* the checklist label with a late dose shown missed before the record is read
ChecklistStatus_late_first(med, hist, d, n) ==
    LET hm == ParseHHMM(med.sched_time)
        sched_mins == IF hm = <<>> THEN 0 ELSE hm[1] * 60 + hm[2]
        rec == Existing(hist, d, med.name, med.sched_time)
    IN  IF n > sched_mins + 30 THEN "Missed"
        ELSE IF rec # 0
        THEN IF hist[rec].taken THEN "Taken" ELSE "Missed"
        ELSE IF n < sched_mins - 15 THEN "Upcoming"
        ELSE "Due now/soon"

\* the label the checklist shows for medicine med on day d at minute n
ChecklistStatus(med, hist, d, n) ==
    LET hm == ParseHHMM(med.sched_time)
        sched_mins == IF hm = <<>> THEN 0 ELSE hm[1] * 60 + hm[2]
        rec == Existing(hist, d, med.name, med.sched_time)
    IN  IF rec # 0
        THEN IF hist[rec].taken THEN "Taken" ELSE "Missed"
        ELSE IF n < sched_mins - 15 THEN "Upcoming"
        ELSE IF sched_mins - 15 <= n /\ n <= sched_mins + 30 THEN "Due now/soon"
        ELSE "Missed"

\* found: some record of day d matches medicine s and is taken
Found(s, hist, d) ==
    \E i \in 1..Len(hist) :
        /\ hist[i].date = d
        /\ hist[i].name = s.name /\ hist[i].sched_time = s.sched_time
        /\ hist[i].taken

\* taken_count after the loop over the first k scheduled medicines
RECURSIVE TakenCount(_, _, _, _)
TakenCount(meds, hist, d, k) ==
    IF k = 0 THEN 0
    ELSE TakenCount(meds, hist, d, k - 1) + (IF Found(meds[k], hist, d) THEN 1 ELSE 0)

\* sum of taken_count over days[0..k-1], the days start .. start + 6
RECURSIVE TakenTotal(_, _, _, _)
TakenTotal(meds, hist, start, k) ==
    IF k = 0 THEN 0
    ELSE TakenTotal(meds, hist, start, k - 1)
         + TakenCount(meds, hist, start + (k - 1), Len(meds))

\* round(num / den) to the nearest integer, a tie going to the even one
RoundHalfEven(num, den) ==
    LET q == num \div den
        r == num % den
    IN  IF 2 * r < den THEN q
        ELSE IF 2 * r > den THEN q + 1
        ELSE IF q % 2 = 0 THEN q ELSE q + 1

\* the weekly adherence over the seven days before today
WeeklyAdherence_before(meds, hist, d) ==
    IF meds = <<>> THEN 1000
    ELSE RoundHalfEven(1000 * TakenTotal(meds, hist, d - 7, 7), 7 * Len(meds))

\* the weekly adherence shown, in tenths of a percent:
\* round(sum(scores) / len(scores) * 100, 1), scores[i] = taken_count / len(scheduled)
WeeklyAdherence(meds, hist, d) ==
    IF meds = <<>> THEN 1000
    ELSE RoundHalfEven(1000 * TakenTotal(meds, hist, d - 6, 7), 7 * Len(meds))

(* ------------------------------ inputs -------------------------------- *)
\* texts typed into "Medicine name"
FormNames == {<<"A", " ">>, <<" ">>}

\* values of the "Scheduled time" picker: <<hour, minute>>
FormTimes == {<<8, 0>>}

\* texts typed into "Notes (optional)"
FormNotes == {<<" ", "n">>}

\* the cell pandas yields for an empty field
NaN == <<"NaN">>

\* str(cell)
Str(cell) == IF cell = NaN THEN <<"n", "a", "n">> ELSE cell

CsvRow(nm, stime) == [name |-> nm, sched_time |-> stime]

\* uploaded tables (columns name, sched_time), as the rows of the data frame
CsvFiles ==
    { <<CsvRow(<<" ">>, <<"0", "8", ":", "0", "0">>),
        CsvRow(<<"B">>, <<"2", "5", ":", "9", "9">>)>>,
      <<CsvRow(NaN, <<"2", "4", ":", "0", "0">>)>> }

(* ------------------------------ handlers ------------------------------ *)
Saved(r) == save_state_to_disk(disk, get_data_file, r)

ClockUnchanged == UNCHANGED <<today, now_mins, now_secs, view>>

\* the dose handled: by which function, and whether the history held an
\* event for it today when the function was called
Mark(op, name, sched) ==
    [op |-> op, name |-> name, sched |-> sched,
     existed |-> Existing(history, today, name, sched) # 0]

\* the record after the rows loop of import_medicines_from_csv
RECURSIVE ImportRows(_, _)
ImportRows(r, rows) ==
    IF rows = <<>> THEN r
    ELSE LET row == Head(rows)
             nm == Strip(Str(row.name))
             stime == Strip(Str(row.sched_time))
         IN  IF Strptime(stime) = <<>>
             THEN ImportRows(r, Tail(rows))
             ELSE ImportRows(add_medicine(r, nm, stime, <<>>), Tail(rows))

\* a new browser session: the session-init block
SessionInit ==
    /\ user' = <<>>
    /\ user_file' = <<>>
    /\ LET r == load_state_from_disk(disk, DEFAULT_DATA_FILE)
       IN  /\ medicines' = r.medicines
           /\ history' = r.history
           /\ next_id' = r.next_id
    /\ last' = NoMark
    /\ UNCHANGED <<disk, issued, fresh>>
    /\ ClockUnchanged

\* the "Start" button of the login row, shown while no user is set
Start(user_text) ==
    /\ user = <<>>
    /\ IF Strip(user_text) # <<>>
       THEN /\ user' = Strip(user_text)
            /\ user_file' = UserFile(QuotePlus(Lower(Strip(user_text))))
       ELSE /\ user' = <<>>
            /\ user_file' = <<>>
    /\ LET f == IF user_file' # <<>> THEN user_file' ELSE DEFAULT_DATA_FILE
           r == load_state_from_disk(disk, f)
       IN  /\ medicines' = r.medicines
           /\ history' = r.history
           /\ next_id' = r.next_id
    /\ last' = NoMark
    /\ UNCHANGED <<disk, issued, fresh>>
    /\ ClockUnchanged

\* the "Add" button of add_medicine_form
AddMedicineForm(name, hm, notes) ==
    /\ IF Strip(name) = <<>>
       THEN UNCHANGED <<medicines, next_id, disk, issued, fresh>>
       ELSE /\ Len(medicines) < MaxMeds
            /\ next_id <= MaxId
            /\ LET r == add_medicine(Record, name, Strftime(hm[1], hm[2]), notes)
               IN  /\ medicines' = r.medicines
                   /\ next_id' = r.next_id
                   /\ disk' = Saved(r)
            /\ issued' = [issued EXCEPT ![get_data_file] = @ \cup {next_id}]
            /\ fresh' = [fresh EXCEPT ![get_data_file] = @ \cup {next_id}]
    /\ last' = IF Strip(name) = <<>> THEN NoMark
               ELSE Mark("add_medicine", Strip(name), Strftime(hm[1], hm[2]))
    /\ UNCHANGED <<history, user, user_file>>
    /\ ClockUnchanged

\* an upload handled by import_medicines_from_csv
BulkImport(rows) ==
    LET r == ImportRows(Record, rows)
    IN  /\ Len(r.medicines) <= MaxMeds
        /\ r.next_id <= MaxId + 1
        /\ medicines' = r.medicines
        /\ next_id' = r.next_id
        /\ disk' = IF r = Record THEN disk ELSE Saved(r)
        /\ issued' = [issued EXCEPT ![get_data_file] = @ \cup (next_id..(r.next_id - 1))]
        /\ fresh' = [fresh EXCEPT ![get_data_file] = @ \cup (next_id..(r.next_id - 1))]
        /\ last' = NoMark
        /\ UNCHANGED <<history, user, user_file>>
        /\ ClockUnchanged

\* the delete button, also dropping the events of the deleted medicine
DeleteButton_purge(i) ==
    /\ i \in 1..Len(medicines)
    /\ medicines' = delete_medicine(medicines, medicines[i].id)
    /\ history' = SelectSeq(history, LAMBDA h : ~(/\ h.name = medicines[i].name
                                                  /\ h.sched_time = medicines[i].sched_time))
    /\ disk' = Saved([medicines |-> medicines', history |-> history',
                      next_id |-> next_id])
    /\ last' = NoMark
    /\ UNCHANGED <<next_id, user, user_file, issued, fresh>>
    /\ ClockUnchanged

\* the delete button of the i-th listed medicine
DeleteButton(i) ==
    /\ i \in 1..Len(medicines)
    /\ medicines' = delete_medicine(medicines, medicines[i].id)
    /\ disk' = Saved([Record EXCEPT !.medicines = medicines'])
    /\ last' = NoMark
    /\ UNCHANGED <<history, next_id, user, user_file, issued, fresh>>
    /\ ClockUnchanged

\* the "Taken" button of the i-th medicine
TakenButton(i) ==
    /\ i \in 1..Len(medicines)
    /\ history' = mark_taken(history, today, now_mins, medicines[i].name,
                             medicines[i].sched_time)
    /\ Len(history') <= MaxHist
    /\ disk' = Saved([Record EXCEPT !.history = history'])
    /\ last' = Mark("mark_taken", medicines[i].name, medicines[i].sched_time)
    /\ UNCHANGED <<medicines, next_id, user, user_file, issued, fresh>>
    /\ ClockUnchanged

\* the "Missed" button of the i-th medicine
MissedButton(i) ==
    /\ i \in 1..Len(medicines)
    /\ history' = mark_missed(history, today, medicines[i].name,
                              medicines[i].sched_time)
    /\ Len(history') <= MaxHist
    /\ disk' = Saved([Record EXCEPT !.history = history'])
    /\ last' = Mark("mark_missed", medicines[i].name, medicines[i].sched_time)
    /\ UNCHANGED <<medicines, next_id, user, user_file, issued, fresh>>
    /\ ClockUnchanged

\* the "Mark next as taken" button of the next-dose card
MarkNextButton ==
    LET nxt == next_scheduled_dose(medicines, today, Instant(today, now_mins, now_secs))
    IN  /\ nxt # <<>>
        /\ InstantDay(nxt[2]) = today
        /\ history' = mark_taken(history, today, now_mins, nxt[1].name,
                                 nxt[1].sched_time)
        /\ Len(history') <= MaxHist
        /\ disk' = Saved([Record EXCEPT !.history = history'])
        /\ last' = Mark("mark_taken", nxt[1].name, nxt[1].sched_time)
        /\ UNCHANGED <<medicines, next_id, user, user_file, issued, fresh>>
        /\ ClockUnchanged

\* the "Clear today's records" button
ClearToday ==
    /\ history' = SelectSeq(history, LAMBDA h : h.date # today)
    /\ disk' = Saved([Record EXCEPT !.history = history'])
    /\ last' = NoMark
    /\ UNCHANGED <<medicines, next_id, user, user_file, issued, fresh>>
    /\ ClockUnchanged

\* the "Reset ALL data" button: the file is unlinked, then written anew
ResetAll ==
    /\ medicines' = <<>>
    /\ history' = <<>>
    /\ next_id' = 1
    /\ disk' = save_state_to_disk([disk EXCEPT ![get_data_file] = NoFile],
                                  get_data_file, EmptyRecord)
    /\ fresh' = [fresh EXCEPT ![get_data_file] = {}]
    /\ last' = NoMark
    /\ UNCHANGED <<user, user_file, issued>>
    /\ ClockUnchanged

\* time passes between script runs
Tick ==
    /\ \E c \in ClockSamples :
          /\ c[1] > today \/ (c[1] = today /\ c[2] > now_mins)
          /\ today' = c[1]
          /\ now_mins' = c[2]
    /\ last' = NoMark
    /\ UNCHANGED <<medicines, history, next_id, user, user_file, disk,
                   issued, fresh, now_secs, view>>

\* the script runs of the sessions that work on the default file (no name
\* given, or a name whose file is the default file)
Next ==
    \/ SessionInit
    \/ \E u \in SharedUserTexts : Start(u)
    \/ \E name \in FormNames, hm \in FormTimes, notes \in FormNotes :
           AddMedicineForm(name, hm, notes)
    \/ \E rows \in CsvFiles : BulkImport(rows)
    \/ \E i \in 1..MaxMeds : DeleteButton(i)
    \/ \E i \in 1..MaxMeds : TakenButton(i)
    \/ \E i \in 1..MaxMeds : MissedButton(i)
    \/ MarkNextButton
    \/ ClearToday
    \/ ResetAll
    \/ Tick

Spec == Init /\ [][Next]_vars

(* ------------------- the views, over drawn records -------------------- *)
\* the day on which the views are rendered
RefDay == 7
\* most marks made to build a drawn history
MaxViewMarks == 2

\* <<name, sched_time_str>> pairs the form and the import hand to add_medicine
ViewAdds ==
    {<<n, Strftime(hm[1], hm[2])>> :
        n \in {m \in FormNames : Strip(m) # <<>>}, hm \in {<<8, 0>>, <<23, 50>>}}
    \cup {<<<<"B">>, <<"0", ":", "0", "5">>>>}

\* the records reached by at most k adds
RECURSIVE ViewRecords(_)
ViewRecords(k) ==
    IF k = 0 THEN {EmptyRecord}
    ELSE ViewRecords(k - 1) \cup
         {add_medicine(r, a[1], a[2], <<>>) : r \in ViewRecords(k - 1), a \in ViewAdds}

\* the histories reached by at most k marks of medicines in meds on the days ds
RECURSIVE ViewHistories(_, _, _)
ViewHistories(meds, ds, k) ==
    IF k = 0 THEN {<<>>}
    ELSE LET prev == ViewHistories(meds, ds, k - 1)
             idx == 1..Len(meds)
         IN  prev
             \cup {mark_taken(h, d, 480, meds[i].name, meds[i].sched_time) :
                      h \in prev, d \in ds, i \in idx}
             \cup {mark_missed(h, d, meds[i].name, meds[i].sched_time) :
                      h \in prev, d \in ds, i \in idx}

InitView ==
    /\ user = <<>>
    /\ user_file = <<>>
    /\ disk = [f \in Files |-> NoFile]
    /\ issued = [f \in Files |-> {}]
    /\ fresh = [f \in Files |-> {}]
    /\ view = NoView
    /\ last = NoMark
    /\ today = RefDay
    /\ \E r \in ViewRecords(MaxViewMeds) :
          /\ medicines = r.medicines
          /\ next_id = r.next_id
          /\ \/ /\ now_mins \in 0..1439
                /\ now_secs \in {0, 1}
                /\ history = <<>>
             \/ /\ now_mins \in 0..1439
                /\ now_secs = 0
                /\ history \in ViewHistories(IF r.medicines = <<>> THEN <<>> ELSE <<Head(r.medicines)>>,
                                             {RefDay}, 1)
             \/ /\ now_mins = 1260
                /\ now_secs = 0
                /\ history \in ViewHistories(r.medicines,
                                             {RefDay, RefDay - 6, RefDay - 7},
                                             MaxViewMarks)

\* one script run renders the checklist, the weekly adherence and the next dose
Render ==
    /\ ~view.rendered
    /\ view' = [rendered |-> TRUE,
                status |-> [i \in 1..Len(medicines) |->
                               ChecklistStatus(medicines[i], history, today, now_mins)],
                next |-> next_scheduled_dose(medicines, today,
                                             Instant(today, now_mins, now_secs)),
                weekly |-> WeeklyAdherence(medicines, history, today)]
    /\ UNCHANGED <<medicines, history, next_id, user, user_file, disk, today,
                   now_mins, now_secs, last, issued, fresh>>

NextView == Render

SpecView == InitView /\ [][NextView]_vars

(* ---------------------- properties of the record ---------------------- *)
HasEvent(hist, d, name, sched) ==
    \E k \in 1..Len(hist) : SameKey(hist[k], d, name, sched)

\* C1: the history never holds two events with the same date, medicine name
\* and scheduled time.
C1_OneEventPerKey ==
    \A i, j \in 1..Len(history) :
        SameKey(history[i], history[j].date, history[j].name, history[j].sched_time)
            => i = j

\* a dose that already had an event was marked again, next to another event
C1_Witness == last.existed /\ Len(history) >= 2

Ids(meds) == [k \in 1..Len(meds) |-> meds[k].id]

\* C2: no two medicines of the list have the same id, and a delete leaves
\* the other medicines, with their ids, as they were and in their order.
C2_UniqueIdsDeleteKeeps ==
    /\ [](\A i, j \in 1..Len(medicines) : medicines[i].id = medicines[j].id => i = j)
    /\ [][\A i \in 1..Len(medicines) :
            DeleteButton(i) =>
                /\ Ids(medicines') =
                      SelectSeq(Ids(medicines), LAMBDA x : x # medicines[i].id)
                /\ \A k \in 1..Len(medicines') :
                      \E j \in 1..Len(medicines) : medicines'[k] = medicines[j]]_vars

\* the medicine with id 1 was deleted, 2 kept its id and 3 was added after it
C2_Witness ==
    Len(medicines) = 2 /\ medicines[1].id = 2 /\ medicines[2].id = 3

\* C3 as stated: next_id is above every id ever issued for the active file.
C3_NextIdAboveEverIssued == \A id \in issued[get_data_file] : next_id > id

\* C3, amended: next_id is above every id issued for the active file since
\* that file was last reset, and above the id of every listed medicine.
C3_NextIdAboveIssuedSinceReset ==
    /\ \A id \in fresh[get_data_file] : next_id > id
    /\ \A k \in 1..Len(medicines) : next_id > medicines[k].id

\* ids were issued, the record was reset, and an id was issued again
C3_Witness ==
    /\ fresh[get_data_file] # {}
    /\ Cardinality(issued[get_data_file]) > Cardinality(fresh[get_data_file])
    /\ medicines # <<>>

\* C4: the Missed button appends a missed event for today when the dose has
\* no event today, and leaves the history as it is when it has one.
C4_MarkMissedOnlyInserts ==
    [][\A i \in 1..Len(medicines) :
          MissedButton(i) =>
              LET name == medicines[i].name
                  sched == medicines[i].sched_time
              IN  IF HasEvent(history, today, name, sched)
                  THEN history' = history
                  ELSE history' = history \o
                           <<[date |-> today, name |-> name, sched_time |-> sched,
                              taken |-> FALSE, taken_time |-> <<>>]>>]_vars

\* Missed was pressed for a dose already taken today, which is still taken
C4_Witness ==
    /\ last.op = "mark_missed" /\ last.existed
    /\ \E k \in 1..Len(history) :
          SameKey(history[k], today, last.name, last.sched) /\ history[k].taken

\* C5: the Taken button pressed for a dose that already has an event today
\* (taken or missed) leaves one event for it, taken, timed at this press.
C5_MarkTakenTwice ==
    [][\A i \in 1..Len(medicines) :
          (TakenButton(i) /\
           HasEvent(history, today, medicines[i].name, medicines[i].sched_time)) =>
              LET hits == {k \in 1..Len(history') :
                              SameKey(history'[k], today, medicines[i].name,
                                      medicines[i].sched_time)}
              IN  /\ Cardinality(hits) = 1
                  /\ Len(history') = Len(history)
                  /\ \A k \in hits :
                        /\ history'[k].taken
                        /\ history'[k].taken_time =
                               Strftime(now_mins \div 60, now_mins % 60)]_vars

\* Taken was pressed at 21:00 for a dose that had an event, now timed 21:00
C5_Witness ==
    /\ last.op = "mark_taken" /\ last.existed /\ now_mins = 1260
    /\ \E k \in 1..Len(history) :
          /\ SameKey(history[k], today, last.name, last.sched)
          /\ history[k].taken_time = <<"2", "1", ":", "0", "0">>

\* rows of an upload that pass validation: a name that does not trim to
\* empty and a time that is a valid HH:MM
ValidRows(rows) ==
    SelectSeq(rows, LAMBDA row : /\ Strip(Str(row.name)) # <<>>
                                 /\ Strptime(Strip(Str(row.sched_time))) # <<>>)

\* C9: an add with a name that trims to empty or a time that is no valid
\* HH:MM changes neither the medicines list nor next_id, from the form and
\* for every row of an upload.
C9_InvalidAddRejected ==
    [][/\ \A rows \in CsvFiles :
             BulkImport(rows) =>
                 /\ Len(medicines') = Len(medicines) + Len(ValidRows(rows))
                 /\ next_id' = next_id + Len(ValidRows(rows))
       /\ \A name \in FormNames, hm \in FormTimes, notes \in FormNotes :
             (AddMedicineForm(name, hm, notes) /\ Strip(name) = <<>>) =>
                 medicines' = medicines /\ next_id' = next_id]_vars

(* ----------------------- properties of the views ---------------------- *)
\* the minute of the day a stored sched_time denotes
SchedMinute(med) ==
    LET hm == Strptime(med.sched_time) IN hm[1] * 60 + hm[2]

T0800 == <<"0", "8", ":", "0", "0">>

\* C6: a medicine with an event for today at its name and scheduled time is
\* shown Taken when the event is taken and Missed when it is not, at every
\* minute of the day.
C6_RecordedEventDecides ==
    view.rendered =>
        \A i \in 1..Len(medicines) :
            \A k \in 1..Len(history) :
                SameKey(history[k], today, medicines[i].name, medicines[i].sched_time)
                    => view.status[i] = IF history[k].taken THEN "Taken" ELSE "Missed"

\* a dose taken today is shown Taken more than 30 minutes after its time
C6_Witness ==
    /\ view.rendered
    /\ \E i \in 1..Len(medicines) :
          /\ view.status[i] = "Taken"
          /\ now_mins > SchedMinute(medicines[i]) + 30

\* C7: a medicine scheduled at minute s with no event for today is shown
\* Upcoming at minutes n < s - 15, Due now/soon at s - 15 <= n <= s + 30 and
\* Missed at n > s + 30; at 08:00 that is 07:30 Upcoming, 07:50 and 08:10 Due
\* now/soon, 09:00 Missed.
C7_WindowStatus ==
    view.rendered =>
        \A i \in 1..Len(medicines) :
            ~HasEvent(history, today, medicines[i].name, medicines[i].sched_time) =>
                /\ Strptime(medicines[i].sched_time) # <<>>
                /\ LET s == SchedMinute(medicines[i])
                   IN  view.status[i] =
                           IF now_mins < s - 15 THEN "Upcoming"
                           ELSE IF now_mins <= s + 30 THEN "Due now/soon"
                           ELSE "Missed"
                /\ medicines[i].sched_time = T0800 =>
                       /\ now_mins = 450 => view.status[i] = "Upcoming"
                       /\ now_mins \in {470, 490} => view.status[i] = "Due now/soon"
                       /\ now_mins = 540 => view.status[i] = "Missed"

\* at 07:45 a dose of 08:00 without an event is shown Due now/soon
C7_Witness ==
    /\ view.rendered
    /\ history = <<>>
    /\ now_mins = 465
    /\ \E i \in 1..Len(medicines) :
          medicines[i].sched_time = T0800 /\ view.status[i] = "Due now/soon"

\* the instant of the reference moment
NowInstant == Instant(today, now_mins, now_secs)

\* today's scheduled instant of a medicine if it has not passed, else tomorrow's
Projected(med) ==
    LET t == Instant(today, SchedMinute(med), 0)
    IN  IF t >= NowInstant THEN t ELSE t + Instant(1, 0, 0)

\* C8: for a non-empty medicines list the next dose is at an instant not
\* before the reference instant, the least of the medicines' projected
\* instants; for an empty list there is none.
C8_NextDoseIsLeastProjected ==
    view.rendered =>
        IF medicines = <<>> THEN view.next = <<>>
        ELSE /\ view.next # <<>>
             /\ view.next[2] >= NowInstant
             /\ \E i \in 1..Len(medicines) : view.next[2] = Projected(medicines[i])
             /\ \A i \in 1..Len(medicines) : view.next[2] <= Projected(medicines[i])

\* two medicines, both past for today: the next dose is tomorrow's
C8_Witness ==
    /\ view.rendered
    /\ Len(medicines) = 2
    /\ medicines[1].sched_time # medicines[2].sched_time
    /\ InstantDay(view.next[2]) = today + 1

\* medicines with a taken event of day d at their name and scheduled time
Satisfied(d) ==
    Cardinality({i \in 1..Len(medicines) :
                    \E k \in 1..Len(history) :
                        /\ SameKey(history[k], d, medicines[i].name,
                                   medicines[i].sched_time)
                        /\ history[k].taken})

\* C10: the weekly adherence is the mean over the 7 days ending today of
\* 100 * (medicines satisfied that day) / (medicines), to the nearest tenth,
\* and 100.0 with no medicines; two medicines with one taken today only
\* give 7.1.
C10_WeeklyAdherenceIsMean ==
    view.rendered =>
        LET n == Len(medicines)
            total == Satisfied(today - 6) + Satisfied(today - 5) + Satisfied(today - 4)
                     + Satisfied(today - 3) + Satisfied(today - 2)
                     + Satisfied(today - 1) + Satisfied(today)
            diff == view.weekly * 7 * n - 1000 * total
        IN  IF n = 0 THEN view.weekly = 1000
            ELSE /\ 2 * diff <= 7 * n /\ -2 * diff <= 7 * n
                 /\ (n = 2 /\ total = 1) => view.weekly = 71

\* two medicines, one taken today, the other marked on a day before the
\* window: 7.1
C10_Witness ==
    /\ view.rendered
    /\ Len(medicines) = 2
    /\ Len(history) = 2
    /\ Satisfied(today) = 1
    /\ \E k \in 1..Len(history) : history[k].date = today - 7 /\ history[k].taken
    /\ view.weekly = 71

(* ------------------- sessions under several user names ---------------- *)
\* the script runs of sessions that log in under any of the user names, with
\* the form as the source of medicines and one moment of the clock
NextUsers ==
    \/ SessionInit
    \/ \E u \in UserTexts : Start(u)
    \/ \E name \in FormNames, hm \in FormTimes, notes \in FormNotes :
           AddMedicineForm(name, hm, notes)
    \/ \E i \in 1..MaxMeds : DeleteButton(i)
    \/ \E i \in 1..MaxMeds : TakenButton(i)
    \/ \E i \in 1..MaxMeds : MissedButton(i)
    \/ ClearToday
    \/ ResetAll

SpecUsers == Init /\ [][NextUsers]_vars

C12_DeletedHistoryInherited ==
    [][/\ \A i \in 1..Len(medicines) : DeleteButton(i) => history' = history
       /\ \A name \in FormNames, hm \in FormTimes, notes \in FormNotes :
             (/\ AddMedicineForm(name, hm, notes)
              /\ Strip(name) # <<>>
              /\ \E k \in 1..Len(history) :
                    /\ SameKey(history[k], today, Strip(name), Strftime(hm[1], hm[2]))
                    /\ history[k].taken) =>
                 LET m == medicines'[Len(medicines')]
                 IN  /\ \A j \in 1..Len(medicines) : medicines[j].id # m.id
                     /\ ChecklistStatus(m, history', today', now_mins') = "Taken"
                     /\ Found(m, history', today')
                     /\ TakenCount(medicines', history', today', Len(medicines')) >= 1]_vars

\* medicine 1 was marked and deleted; medicine 2, just added under its name
\* and time, is the only one listed and is shown Taken
C12_Witness ==
    /\ last.op = "add_medicine" /\ last.existed
    /\ Len(medicines) = 1
    /\ medicines[1].id = 2
    /\ medicines[1].name = last.name /\ medicines[1].sched_time = last.sched
    /\ ChecklistStatus(medicines[1], history, today, now_mins) = "Taken"
    /\ WeeklyAdherence(medicines, history, today) > 0

(* ------------------------ storage partitions -------------------------- *)
\* the storage key of a user name: the name stripped, lowercased and
\* escaped, and the empty key when no name is given
StorageKey(u) == QuotePlus(Lower(Strip(u)))

\* the file behind a storage key
KeyFile(k) == IF k = <<>> THEN DEFAULT_DATA_FILE ELSE UserFile(k)

StorageKeys == {StorageKey(u) : u \in UserTexts}

\* the key of the session's user
ActiveKey == StorageKey(user)

\* C13: a script run changes the stored record of no key but the active
\* one, and Start puts the stored record of the chosen key (the empty record
\* with next_id 1 if it has none) in place of the whole session record.
C13_PartitionsIsolated ==
    [][/\ \A k \in StorageKeys \ {ActiveKey} : disk'[KeyFile(k)] = disk[KeyFile(k)]
       /\ \A u \in UserTexts :
             Start(u) =>
                 LET p == disk[KeyFile(StorageKey(u))]
                 IN  Record' = IF p.exists THEN p.data ELSE EmptyRecord]_vars

\* the same by file instead of by key: a script run changes no file but
\* the active user's, and Start loads the chosen file whole
FilesIsolated ==
    [][/\ \A f \in Files \ {get_data_file} : disk'[f] = disk[f]
       /\ \A u \in UserTexts :
             Start(u) =>
                 LET p == disk[KeyFile(StorageKey(u))]
                 IN  Record' = IF p.exists THEN p.data ELSE EmptyRecord]_vars

====
